---- MODULE Spec2Model ----
(***************************************************************************)
(* Chess trainer: the move validation and attempt recording pipeline.     *)
(* The SQLite tables are sets of rows; every function of training.py,     *)
(* settings.py, auth.py, jsonl_loader.py and database.py that the         *)
(* pipeline uses is one action that runs the whole function.              *)
(***************************************************************************)
EXTENDS Integers, Sequences, FiniteSets, TLC

\* ---------------------------------------------------------------- bounds
MaxPos == 2          \* position ids offered by import files: 1..MaxPos
MaxTopMoves == 2     \* longest top_moves list of an import line
MaxMoveId == 3       \* imports stop once the moves AUTOINCREMENT counter reaches this
MaxAttempts == 2     \* record_user_move stops once this many ids were handed out
MaxUsers == 2        \* user ids 1..MaxUsers
MaxLines == 1        \* longest import file, in lines
MaxSessions == 2     \* browser sessions 1..MaxSessions

\* ------------------------------------------------------- program constants
DefaultTopN == 3
DefaultScoreDiff == 10

\* ---------------------------------------------------------- input domains
PosIds == 1..MaxPos
UserIds == 1..MaxUsers
SessionIds == 1..MaxSessions
Fens == {"fenA", "fenB"}
Notations == {"e4", "d4"}
\* a legal move of the board that the engine never ranked
Unranked == "h3"
Scores == {10, 20, 35}
Times == {1, 2}
TopNInputs == {0, 1}
ScoreDiffInputs == {-1, 15}
Emails == {"a@x", "b@x"}
Texts == {"t1", "t2"}
\* the readings of the database clock (CURRENT_TIMESTAMP)
Timestamps == {1, 2}
\* the value of a column that holds NULL, and Python's None
None == "None"

VARIABLES
    positions,        \* table positions: rows [id, fen]
    moves,            \* table moves: rows [id, position_id, move, score, rank]
    moves_seq,        \* sqlite_sequence of moves (AUTOINCREMENT)
    users,            \* table users: rows [id, email]
    users_seq,        \* sqlite_sequence of users
    user_settings,    \* table user_settings: rows [user_id, random_positions, top_n_threshold, score_difference_threshold]
    user_moves,       \* table user_moves: rows [id, user_id, position_id, move_id, time_taken, result, timestamp, openai_analysis]
    user_moves_seq,   \* sqlite_sequence of user_moves
    ret,              \* the last call: its name, arguments and returned value
    session           \* st.session_state of each browser session

vars == <<positions, moves, moves_seq, users, users_seq, user_settings,
          user_moves, user_moves_seq, ret, session>>

catalog == <<positions, moves, moves_seq>>
accounts == <<users, users_seq, user_settings>>
attempts == <<user_moves, user_moves_seq>>

Abs(x) == IF x < 0 THEN -x ELSE x

SetMin(S) == CHOOSE x \in S : \A y \in S : x <= y
SetMax(S) == CHOOSE x \in S : \A y \in S : x >= y

\* ------------------------------------------------------------ database.py
\* the columns of the tables and their keys (PRIMARY KEY and UNIQUE)
TypeOK ==
    /\ \A p \in positions : DOMAIN p = {"id", "fen"}
    /\ \A p, q \in positions : (p.id = q.id \/ p.fen = q.fen) => p = q
    /\ \A m \in moves :
          /\ DOMAIN m = {"id", "position_id", "move", "score", "rank"}
          /\ m.id \in 1..moves_seq
    /\ \A m, n \in moves :
          (m.id = n.id \/ (m.position_id = n.position_id /\ m.move = n.move)) => m = n
    /\ \A u \in users : DOMAIN u = {"id", "email"} /\ u.id \in 1..users_seq
    /\ \A u, v \in users : (u.id = v.id \/ u.email = v.email) => u = v
    /\ \A row \in user_settings :
          DOMAIN row = {"user_id", "random_positions", "top_n_threshold",
                        "score_difference_threshold"}
    /\ \A row, other \in user_settings : row.user_id = other.user_id => row = other
    /\ \A a \in user_moves :
          /\ DOMAIN a = {"id", "user_id", "position_id", "move_id", "time_taken",
                         "result", "timestamp", "openai_analysis"}
          /\ a.id \in 1..user_moves_seq
    /\ \A a, b \in user_moves : a.id = b.id => a = b

\* the tables right after init_db on a fresh file
init_db ==
    /\ positions = {}
    /\ moves = {}
    /\ moves_seq = 0
    /\ users = {}
    /\ users_seq = 0
    /\ user_settings = {}
    /\ user_moves = {}
    /\ user_moves_seq = 0

\* One element of top_moves. complete = FALSE stands for an element that
\* lacks one of the NOT NULL columns (uci, score, depth, classification).
MoveEntries ==
    [move : Notations, score : Scores, complete : {TRUE}]
        \cup [move : Notations, score : {10}, complete : {FALSE}]

RECURSIVE SeqsUpTo(_, _)
SeqsUpTo(S, n) ==
    IF n = 0 THEN {<<>>}
    ELSE LET shorter == SeqsUpTo(S, n - 1)
         IN  shorter \cup {Append(s, x) : s \in {t \in shorter : Len(t) = n - 1}, x \in S}

\* One line of the JSONL file; id = 0 stands for a line without a usable id
\* (missing, null or 0), which fails the required-fields test.
Lines(ids, fens, lists) == [id : ids, fen : fens, top_moves : lists]

\* INSERT OR IGNORE INTO positions: ignored on a PRIMARY KEY or UNIQUE(fen) conflict
InsertPosition(ps, line) ==
    IF \E p \in ps : p.id = line.id \/ p.fen = line.fen
    THEN ps
    ELSE ps \cup {[id |-> line.id, fen |-> line.fen]}

\* InsertMove with a bug: the moves table has no UNIQUE(position_id, move)
InsertMoveWithoutUnique(db, position_id, entry, rank) ==
    LET id == db.seq + 1
    IN  [rows |-> IF ~entry.complete THEN db.rows
                  ELSE db.rows \cup {[id |-> id, position_id |-> position_id,
                                      move |-> entry.move, score |-> entry.score,
                                      rank |-> rank]},
         seq |-> id]

\* INSERT OR IGNORE INTO moves for element number rank of the line: ignored
\* on a NOT NULL or UNIQUE(position_id, move) conflict. The AUTOINCREMENT
\* counter advances for an ignored row as well.
InsertMove(db, position_id, entry, rank) ==
    LET id == db.seq + 1
        ignored == \/ ~entry.complete
                   \/ \E m \in db.rows : m.position_id = position_id /\ m.move = entry.move
    IN  [rows |-> IF ignored THEN db.rows
                  ELSE db.rows \cup {[id |-> id, position_id |-> position_id,
                                      move |-> entry.move, score |-> entry.score,
                                      rank |-> rank]},
         seq |-> id]

RECURSIVE InsertMoves(_, _, _, _)
InsertMoves(db, position_id, top_moves, rank) ==
    IF rank > Len(top_moves) THEN db
    ELSE InsertMoves(InsertMove(db, position_id, top_moves[rank], rank),
                     position_id, top_moves, rank + 1)

\* the body of the loop of load_positions_from_jsonl for one line
LoadLine(db, line) ==
    IF line.id = 0
    THEN db
    ELSE LET ps == InsertPosition(db.positions, line)
             ms == InsertMoves([rows |-> db.moves, seq |-> db.moves_seq],
                               line.id, line.top_moves, 1)
         IN  [positions |-> ps, moves |-> ms.rows, moves_seq |-> ms.seq,
              positions_loaded |-> db.positions_loaded
                                     + (IF ps = db.positions THEN 0 ELSE 1)]

RECURSIVE LoadLines(_, _, _)
LoadLines(db, file, i) ==
    IF i > Len(file) THEN db
    ELSE LoadLines(LoadLine(db, file[i]), file, i + 1)

load_positions_from_jsonl(file) ==
    LET db == LoadLines([positions |-> positions, moves |-> moves,
                         moves_seq |-> moves_seq, positions_loaded |-> 0], file, 1)
    IN  /\ db.moves_seq <= MaxMoveId
        /\ positions' = db.positions
        /\ moves' = db.moves
        /\ moves_seq' = db.moves_seq
        /\ ret' = [op |-> "load_positions_from_jsonl", res |-> db.positions_loaded]
        /\ UNCHANGED <<accounts, attempts, session>>


\* the files offered to the importer: 1..MaxLines lines each
Files(ids, fens, lists) == SeqsUpTo(Lines(ids, fens, lists), MaxLines) \ {<<>>}

\* the keys update_user_settings accepts (theme is display only and left out)
valid_keys == {"random_positions", "top_n_threshold", "score_difference_threshold"}

\* the values a caller may pass for a key (random_positions is stored as 0 or 1)
KeyValues(key) ==
    IF key = "random_positions" THEN {0, 1}
    ELSE IF key = "top_n_threshold" THEN TopNInputs
    ELSE ScoreDiffInputs

\* the dicts offered to update_user_settings: any subset of the keys
SettingsDicts ==
    UNION {{d \in [keys -> {0, 1} \cup TopNInputs \cup ScoreDiffInputs] :
                \A key \in keys : d[key] \in KeyValues(key)}
           : keys \in SUBSET valid_keys}

\* ------------------------------------------------------- jsonl_loader.py
\* The verdicts validate_jsonl_file may give a file: it is valid when one of
\* its lines has every required key. A line of id 0 has the key with a null
\* or 0 value, or lacks it; every other line of the model has the keys.
validate_jsonl_file(file_path) ==
    IF \A i \in DOMAIN file_path : file_path[i].id = 0
    THEN {TRUE, FALSE}
    ELSE {TRUE}

\* import_positions: the file is validated, the positions are counted, the
\* file is loaded and the positions are counted again.
import_positions(file_path) ==
    \E is_valid \in validate_jsonl_file(file_path) :
        IF ~is_valid
        THEN /\ ret' = [op |-> "import_positions", file_path |-> file_path,
                        res |-> [success |-> FALSE, imported |-> 0]]
             /\ UNCHANGED <<catalog, accounts, attempts, session>>
        ELSE LET before_count == Cardinality(positions)
                 db == LoadLines([positions |-> positions, moves |-> moves,
                                  moves_seq |-> moves_seq, positions_loaded |-> 0],
                                 file_path, 1)
                 after_count == Cardinality(db.positions)
             IN  /\ db.moves_seq <= MaxMoveId
                 /\ positions' = db.positions
                 /\ moves' = db.moves
                 /\ moves_seq' = db.moves_seq
                 /\ ret' = [op |-> "import_positions", file_path |-> file_path,
                            res |-> [success |-> TRUE,
                                     imported |-> after_count - before_count,
                                     total_positions |-> after_count]]
                 /\ UNCHANGED <<accounts, attempts, session>>

\* clear_positions with a bug: the tables are emptied before the count is tested
clear_positions_unguarded ==
    /\ moves' = {}
    /\ positions' = {}
    /\ ret' = [op |-> "clear_positions",
               res |-> [success |-> Cardinality(user_moves) = 0]]
    /\ UNCHANGED <<moves_seq, accounts, attempts, session>>

clear_positions ==
    /\ IF Cardinality(user_moves) > 0
       THEN /\ ret' = [op |-> "clear_positions", res |-> [success |-> FALSE]]
            /\ UNCHANGED <<positions, moves>>
       ELSE /\ moves' = {}
            /\ positions' = {}
            /\ ret' = [op |-> "clear_positions", res |-> [success |-> TRUE]]
    /\ UNCHANGED <<moves_seq, accounts, attempts, session>>

\* ----------------------------------------------------------------- auth.py
register_user(email) ==
    IF \E u \in users : u.email = email
    THEN /\ ret' = [op |-> "register_user", email |-> email, res |-> FALSE]
         /\ UNCHANGED <<catalog, accounts, attempts, session>>
    ELSE LET user_id == users_seq + 1
         IN  /\ users' = users \cup {[id |-> user_id, email |-> email]}
             /\ users_seq' = user_id
             \* INSERT INTO user_settings (user_id): the column defaults
             /\ user_settings' = user_settings \cup
                    {[user_id |-> user_id, random_positions |-> 1,
                      top_n_threshold |-> DefaultTopN,
                      score_difference_threshold |-> DefaultScoreDiff]}
             /\ ret' = [op |-> "register_user", email |-> email, res |-> TRUE]
             /\ UNCHANGED <<catalog, attempts, session>>

\* ------------------------------------------------------------- settings.py
\* UPDATE user_settings SET key = value WHERE user_id = ?, once per key of
\* the dict; a column whose key the dict leaves out keeps its value.
UpdatedRow(row, settings_dict) ==
    [key \in DOMAIN row |->
        IF key \in DOMAIN settings_dict /\ key \in valid_keys
        THEN settings_dict[key] ELSE row[key]]

\* update_user_settings with a bug: the UPDATE has no WHERE clause
update_user_settings_every_row(user_id, settings_dict) ==
    /\ user_settings' = {UpdatedRow(row, settings_dict) : row \in user_settings}
    /\ ret' = [op |-> "update_user_settings", user_id |-> user_id,
               settings_dict |-> settings_dict, res |-> TRUE]
    /\ UNCHANGED <<catalog, users, users_seq, attempts, session>>

update_user_settings(user_id, settings_dict) ==
    /\ user_settings' = {IF row.user_id = user_id
                         THEN UpdatedRow(row, settings_dict) ELSE row
                         : row \in user_settings}
    /\ ret' = [op |-> "update_user_settings", user_id |-> user_id,
               settings_dict |-> settings_dict, res |-> TRUE]
    /\ UNCHANGED <<catalog, users, users_seq, attempts, session>>


\* --------------------------------------------------------------- training.py
\* SELECT ... FROM moves WHERE position_id = ? ORDER BY rank, as the list
\* cursor.fetchall() returns: every order of the rows that ascends in rank
\* (SQL leaves the order of rows of equal rank open).
RankOrdered(rows) ==
    {s \in [1..Cardinality(rows) -> rows] :
        /\ \A i, j \in DOMAIN s : i < j => s[i].rank <= s[j].rank
        /\ \A i, j \in DOMAIN s : i # j => s[i] # s[j]}

\* get_position_by_id with a bug: the moves query has no ORDER BY rank
get_position_by_id_unordered(position_id) ==
    IF ~\E p \in positions : p.id = position_id
    THEN {[found |-> FALSE]}
    ELSE LET position == CHOOSE p \in positions : p.id = position_id
             rows == {m \in moves : m.position_id = position_id}
         IN  {[found |-> TRUE, id |-> position.id, fen |-> position.fen, moves |-> ms]
              : ms \in {s \in [1..Cardinality(rows) -> rows] :
                           \A i, j \in DOMAIN s : i # j => s[i] # s[j]}}

\* the values get_position_by_id may return; a found position carries its moves
get_position_by_id(position_id) ==
    IF ~\E p \in positions : p.id = position_id
    THEN {[found |-> FALSE]}
    ELSE LET position == CHOOSE p \in positions : p.id = position_id
         IN  {[found |-> TRUE, id |-> position.id, fen |-> position.fen, moves |-> ms]
              : ms \in RankOrdered({m \in moves : m.position_id = position_id})}

\* get_sequential_position with a bug: MAX(position_id) over every user's rows
get_sequential_position_any_user(user_id) ==
    LET attempted == {a.position_id : a \in user_moves}
        last_position_id == IF attempted = {} THEN 0 ELSE SetMax(attempted)
        later == {p.id : p \in {q \in positions : q.id > last_position_id}}
    IN  IF later = {}
        THEN [status |-> "raise", values |-> {}]
        ELSE [status |-> "ok", values |-> get_position_by_id(SetMin(later))]

\* Outcome of get_sequential_position: status "ok" with the values it may
\* return, or status "raise" when it runs a query on the closed connection.
get_sequential_position(user_id) ==
    LET attempted == {a.position_id : a \in {r \in user_moves : r.user_id = user_id}}
        \* MAX(position_id) is NULL without rows; NULL and 0 both give 0
        last_position_id == IF attempted = {} \/ SetMax(attempted) = 0
                            THEN 0 ELSE SetMax(attempted)
        later == {p.id : p \in {q \in positions : q.id > last_position_id}}
        \* MIN(id) is NULL without rows; NULL and 0 both give None
        next_position_id == IF later = {} \/ SetMin(later) = 0
                            THEN 0 ELSE SetMin(later)
    IN  IF next_position_id = 0
        \* conn.close() came first: cursor.execute raises ProgrammingError
        THEN [status |-> "raise", values |-> {}]
        ELSE [status |-> "ok", values |-> get_position_by_id(next_position_id)]

\* Thresholds with a bug: the stored row is ignored
ThresholdsIgnoringRow(user_id) ==
    [top_n_threshold |-> DefaultTopN, score_difference_threshold |-> DefaultScoreDiff]

\* the thresholds validate_move decides with
Thresholds(user_id) ==
    IF \E row \in user_settings : row.user_id = user_id
    THEN LET settings == CHOOSE row \in user_settings : row.user_id = user_id
         IN  [top_n_threshold |-> settings.top_n_threshold,
              score_difference_threshold |-> settings.score_difference_threshold]
    ELSE [top_n_threshold |-> DefaultTopN,
          score_difference_threshold |-> DefaultScoreDiff]

\* IsSuccess with a bug: the score test is strict
IsSuccessStrict(rank, score_difference, th) ==
    (rank <= th.top_n_threshold) /\ (score_difference < th.score_difference_threshold)

\* rank <= top_n_threshold and score_difference <= score_difference_threshold
IsSuccess(rank, score_difference, th) ==
    (rank <= th.top_n_threshold) /\ (score_difference <= th.score_difference_threshold)

\* Message with a bug: the score-gap note is added to every rejection
MessageNotingEveryFail(rank, th, is_success) ==
    [rank |-> rank, gap_note |-> ~is_success]

\* The message of the returned dict: "Move ranked #<rank>", followed by the
\* note ", but score difference too high: ..." when gap_note is TRUE.
Message(rank, th, is_success) ==
    [rank |-> rank, gap_note |-> rank <= th.top_n_threshold /\ ~is_success]

\* The dicts validate_move may return. fetchone() on the rank-1 query returns
\* any one of the rank-1 rows of the position when there are several.
validate_move(position_id, selected_move, user_id) ==
    LET th == Thresholds(user_id)
        selected == {m \in moves : m.position_id = position_id /\ m.move = selected_move}
        top == {m \in moves : m.position_id = position_id /\ m.rank = 1}
    IN  IF selected = {} \/ top = {}
        THEN {[found |-> FALSE, success |-> FALSE,
               message |-> "Move not found or position invalid"]}
        ELSE LET selected_move_data == CHOOSE m \in selected : TRUE
             IN  {LET score_difference == Abs(selected_move_data.score - top_move.score)
                      is_success == IsSuccess(selected_move_data.rank, score_difference, th)
                  IN  [found |-> TRUE,
                       success |-> is_success,
                       move_id |-> selected_move_data.id,
                       rank |-> selected_move_data.rank,
                       score |-> selected_move_data.score,
                       score_difference |-> score_difference,
                       result |-> IF is_success THEN "pass" ELSE "fail",
                       message |-> Message(selected_move_data.rank, th, is_success)]
                  : top_move \in top}

\* The values DEFAULT CURRENT_TIMESTAMP may give a new row: a reading of the
\* clock that is not before the timestamp of any row written so far.
CurrentTimestamps ==
    {now \in Timestamps : \A r \in user_moves : r.timestamp <= now}

\* record_user_move with a bug: the user's earlier row for the position is replaced
record_user_move_replacing(user_id, position_id, move_id, time_taken, result) ==
    LET move_record_id == user_moves_seq + 1
        kept == {r \in user_moves : ~(r.user_id = user_id /\ r.position_id = position_id)}
    IN  /\ \E timestamp \in CurrentTimestamps :
              user_moves' = kept \cup
               {[id |-> move_record_id, user_id |-> user_id,
                 position_id |-> position_id, move_id |-> move_id,
                 time_taken |-> time_taken, result |-> result,
                 timestamp |-> timestamp, openai_analysis |-> None]}
        /\ user_moves_seq' = move_record_id
        /\ UNCHANGED <<catalog, accounts>>

\* record_user_move with a bug: attempts are numbered per user
record_user_move_numbering_per_user(user_id, position_id, move_id, time_taken, result) ==
    LET move_record_id == Cardinality({r \in user_moves : r.user_id = user_id}) + 1
    IN  /\ \E timestamp \in CurrentTimestamps :
              user_moves' = user_moves \cup
               {[id |-> move_record_id, user_id |-> user_id,
                 position_id |-> position_id, move_id |-> move_id,
                 time_taken |-> time_taken, result |-> result,
                 timestamp |-> timestamp, openai_analysis |-> None]}
        /\ user_moves_seq' = move_record_id
        /\ UNCHANGED <<catalog, accounts>>

\* INSERT INTO user_moves: the row gets the next AUTOINCREMENT id, which
\* cursor.lastrowid returns (user_moves_seq after the call), the current
\* timestamp and no analysis text
record_user_move(user_id, position_id, move_id, time_taken, result) ==
    LET move_record_id == user_moves_seq + 1
    IN  /\ \E timestamp \in CurrentTimestamps :
              user_moves' = user_moves \cup
               {[id |-> move_record_id, user_id |-> user_id,
                 position_id |-> position_id, move_id |-> move_id,
                 time_taken |-> time_taken, result |-> result,
                 timestamp |-> timestamp, openai_analysis |-> None]}
        /\ user_moves_seq' = move_record_id
        /\ UNCHANGED <<catalog, accounts>>

\* save_openai_analysis with a bug: the row is stamped again on update
save_openai_analysis_restamping(move_record_id, analysis_text) ==
    /\ user_moves' = {IF r.id = move_record_id
                      THEN [r EXCEPT !.openai_analysis = analysis_text,
                                     !.timestamp = SetMax(Timestamps)]
                      ELSE r
                      : r \in user_moves}
    /\ user_moves_seq' = user_moves_seq
    /\ UNCHANGED <<catalog, accounts>>

\* save_openai_analysis with a bug: the text is appended as a new row
save_openai_analysis_inserting(move_record_id, analysis_text) ==
    /\ user_moves' = user_moves \cup
           {[r EXCEPT !.id = user_moves_seq + 1, !.openai_analysis = analysis_text]
            : r \in {a \in user_moves : a.id = move_record_id}}
    /\ user_moves_seq' = user_moves_seq + 1
    /\ UNCHANGED <<catalog, accounts>>

\* UPDATE user_moves SET openai_analysis = ? WHERE id = ?; the function
\* returns True whether or not a row has that id
save_openai_analysis(move_record_id, analysis_text) ==
    /\ user_moves' = {IF r.id = move_record_id
                      THEN [r EXCEPT !.openai_analysis = analysis_text] ELSE r
                      : r \in user_moves}
    /\ user_moves_seq' = user_moves_seq
    /\ UNCHANGED <<catalog, accounts>>


\* ------------------------------------------------------------------ callers
\* the importer is run on a file
Import(files) ==
    \E file \in files : load_positions_from_jsonl(file)

\* the "Import Positions" button of the settings page with an uploaded file
ImportPositions(files) ==
    \E file_path \in files : import_positions(file_path)

ClearPositions ==
    clear_positions

Register(emails) ==
    \E email \in emails : register_user(email)

UpdateSettings(dicts) ==
    \E user_id \in UserIds, settings_dict \in dicts :
        update_user_settings(user_id, settings_dict)

\* ValidateMove with a bug: a validation that finds the move records it too
ValidateMoveRecording ==
    \E position_id \in PosIds, selected_move \in Notations \cup {Unranked},
       user_id \in UserIds :
        \E validation \in validate_move(position_id, selected_move, user_id) :
            /\ ret' = [op |-> "validate_move", position_id |-> position_id,
                       selected_move |-> selected_move, user_id |-> user_id,
                       res |-> validation]
            /\ IF validation.found /\ user_moves_seq < MaxAttempts
               THEN record_user_move(user_id, position_id, validation.move_id,
                                     1, validation.result)
               ELSE UNCHANGED <<catalog, accounts, attempts>>
            /\ UNCHANGED session

ValidateMove ==
    \E position_id \in PosIds, selected_move \in Notations \cup {Unranked},
       user_id \in UserIds :
        \E validation \in validate_move(position_id, selected_move, user_id) :
            /\ ret' = [op |-> "validate_move", position_id |-> position_id,
                       selected_move |-> selected_move, user_id |-> user_id,
                       res |-> validation]
            /\ UNCHANGED <<catalog, accounts, attempts, session>>

\* record_user_move is called with one of the given argument tuples
RecordUserMove(inputs) ==
    \E in \in inputs :
        /\ user_moves_seq < MaxAttempts
        /\ record_user_move(in.user_id, in.position_id, in.move_id,
                            in.time_taken, in.result)
        /\ ret' = [op |-> "record_user_move", user_id |-> in.user_id,
                   position_id |-> in.position_id, move_id |-> in.move_id,
                   time_taken |-> in.time_taken, result |-> in.result,
                   res |-> user_moves_seq']
        /\ UNCHANGED session

\* save_openai_analysis is called with an attempt id and a text; replaced is
\* the text the row held when the call was made (None without a row or text)
SaveOpenaiAnalysis ==
    \E move_record_id \in 1..MaxAttempts, analysis_text \in Texts :
        /\ save_openai_analysis(move_record_id, analysis_text)
        /\ ret' = [op |-> "save_openai_analysis", move_record_id |-> move_record_id,
                   analysis_text |-> analysis_text, res |-> TRUE,
                   replaced |-> IF \E r \in user_moves : r.id = move_record_id
                                THEN (CHOOSE r \in user_moves : r.id = move_record_id).openai_analysis
                                ELSE None]
        /\ UNCHANGED session

GetPositionById ==
    \E position_id \in PosIds :
        \E position \in get_position_by_id(position_id) :
            /\ ret' = [op |-> "get_position_by_id", position_id |-> position_id,
                       res |-> position]
            /\ UNCHANGED <<catalog, accounts, attempts, session>>

GetSequentialPosition ==
    \E user_id \in UserIds :
        LET out == get_sequential_position(user_id)
        IN  /\ IF out.status = "raise"
               THEN ret' = [op |-> "get_sequential_position", user_id |-> user_id,
                            raised |-> TRUE, res |-> [found |-> FALSE]]
               ELSE \E position \in out.values :
                        ret' = [op |-> "get_sequential_position", user_id |-> user_id,
                                raised |-> FALSE, res |-> position]
            /\ UNCHANGED <<catalog, accounts, attempts, session>>

\* ------------------------------------------------------------------ app.py
NoPosition == [found |-> FALSE]

\* st.session_state at the start of a browser session; user_id 0 and
\* last_move_record 0 are None, and so is the empty current_moves_data
InitSession ==
    [user_id |-> 0, current_position |-> NoPosition, last_move_record |-> 0,
     show_moves_table |-> FALSE, current_moves_data |-> <<>>, pc |-> "idle",
     validation |-> [found |-> FALSE], elapsed_time |-> 0]

\* position['moves'][:10]
FirstTen(list) == SubSeq(list, 1, IF Len(list) > 10 THEN 10 ELSE Len(list))

\* the browser session is logged in
LoggedIn(s) == session[s].user_id # 0

\* the "Login" button with the password of the account: login_user returns
\* the id of the users row with the email, or None without such a row
Login(s, email) ==
    /\ ~LoggedIn(s)
    /\ IF \E u \in users : u.email = email
       THEN LET user == CHOOSE u \in users : u.email = email
            IN  /\ session' = [session EXCEPT ![s].user_id = user.id]
                /\ ret' = [op |-> "login_user", session |-> s, res |-> user.id]
       ELSE /\ ret' = [op |-> "login_user", session |-> s, res |-> 0]
            /\ UNCHANGED session
    /\ UNCHANGED <<catalog, accounts, attempts>>

\* the values get_random_position may return
get_random_position ==
    IF positions = {} THEN {NoPosition}
    ELSE UNION {get_position_by_id(p.id) : p \in positions}

\* load_new_position: the outcomes for st.session_state.current_position;
\* raised when get_sequential_position raises
load_new_position(user_id) ==
    LET rows == {row \in user_settings : row.user_id = user_id}
    IN  IF Cardinality(positions) = 0
        THEN {[raised |-> FALSE, position |-> NoPosition]}
        ELSE IF \E row \in rows : row.random_positions # 0
        THEN {[raised |-> FALSE, position |-> position] : position \in get_random_position}
        ELSE LET out == get_sequential_position(user_id)
             IN  IF out.status = "raise"
                 THEN {[raised |-> TRUE, position |-> NoPosition]}
                 ELSE {[raised |-> FALSE, position |-> position] : position \in out.values}

\* "if not st.session_state.current_position: load_new_position()"
EnsurePosition(user_id, current) ==
    IF current.found
    THEN {[raised |-> FALSE, position |-> current]}
    ELSE load_new_position(user_id)

\* a run of display_train_page without a button: the page is opened or refreshed
OpenTrainPage(s) ==
    /\ LoggedIn(s)
    /\ session[s].pc = "idle"
    /\ \E out \in EnsurePosition(session[s].user_id, session[s].current_position) :
          /\ session' = [session EXCEPT ![s].current_position = out.position]
          /\ ret' = [op |-> "display_train_page", session |-> s,
                     raised |-> out.raised]
    /\ UNCHANGED <<catalog, accounts, attempts>>

\* the run for the "Load Position" button of the sidebar
LoadPositionButton(s, position_id) ==
    /\ LoggedIn(s)
    /\ session[s].pc = "idle"
    /\ \E position \in get_position_by_id(position_id) :
          LET loaded == IF position.found THEN position
                        ELSE session[s].current_position
          IN  \E out \in EnsurePosition(session[s].user_id, loaded) :
                /\ session' = [session EXCEPT ![s].current_position =
                                   IF out.raised THEN loaded ELSE out.position]
                /\ ret' = [op |-> "load_position_button", session |-> s,
                           raised |-> out.raised]
    /\ UNCHANGED <<catalog, accounts, attempts>>

\* The run for the "Submit Move" button, up to the return of validate_move.
\* The move is looked up in the moves loaded with the position; a candidate
\* is validated against the tables, and validation['move_id'] raises
\* KeyError when validate_move found nothing. Any other legal move is
\* recorded as a fail against the last move of the loaded list.
SubmitMove(s, selected_move, elapsed_time) ==
    LET position == session[s].current_position
        user_id == session[s].user_id
        loaded == {position.moves[i] : i \in DOMAIN position.moves}
    IN  /\ LoggedIn(s)
        /\ session[s].pc = "idle"
        /\ position.found
        /\ IF \E m \in loaded : m.move = selected_move
           THEN /\ \E validation \in validate_move(position.id, selected_move, user_id) :
                     /\ session' = [session EXCEPT
                            ![s].pc = IF validation.found THEN "validated" ELSE "idle",
                            ![s].validation = validation,
                            ![s].elapsed_time = elapsed_time]
                     /\ ret' = [op |-> "submit_move", session |-> s,
                                selected_move |-> selected_move, candidate |-> TRUE,
                                raised |-> ~validation.found, res |-> validation]
                /\ UNCHANGED <<catalog, accounts, attempts>>
           ELSE IF Len(position.moves) > 0
           THEN /\ user_moves_seq < MaxAttempts
                /\ record_user_move(user_id, position.id,
                                    position.moves[Len(position.moves)].id,
                                    elapsed_time, "fail")
                /\ session' = [session EXCEPT
                       ![s].last_move_record = user_moves_seq',
                       ![s].show_moves_table = TRUE,
                       ![s].current_moves_data = FirstTen(position.moves)]
                /\ ret' = [op |-> "submit_move", session |-> s,
                           selected_move |-> selected_move, candidate |-> FALSE,
                           raised |-> FALSE, res |-> [found |-> FALSE]]
           ELSE /\ session' = [session EXCEPT
                       ![s].show_moves_table = TRUE,
                       ![s].current_moves_data = FirstTen(position.moves)]
                /\ ret' = [op |-> "submit_move", session |-> s,
                           selected_move |-> selected_move, candidate |-> FALSE,
                           raised |-> FALSE, res |-> [found |-> FALSE]]
                /\ UNCHANGED <<catalog, accounts, attempts>>

\* SubmitRecord with a bug: the validation is kept in a module-level global
\* that every session writes
SubmitRecordSharedValidation(s) ==
    LET position == session[s].current_position
        validation == IF ret.op = "submit_move" /\ ret.res.found
                      THEN ret.res ELSE session[s].validation
    IN  /\ session[s].pc = "validated"
        /\ user_moves_seq < MaxAttempts
        /\ record_user_move(session[s].user_id, position.id, validation.move_id,
                            session[s].elapsed_time, validation.result)
        /\ session' = [session EXCEPT
               ![s].pc = "idle",
               ![s].last_move_record = user_moves_seq',
               ![s].show_moves_table = TRUE,
               ![s].current_moves_data = FirstTen(position.moves)]
        /\ ret' = [op |-> "submit_record", session |-> s, res |-> user_moves_seq']

\* the rest of the run for a candidate move: record_user_move with the
\* move_id and result validate_move returned, then the session state
SubmitRecord(s) ==
    LET position == session[s].current_position
        validation == session[s].validation
    IN  /\ session[s].pc = "validated"
        /\ user_moves_seq < MaxAttempts
        /\ record_user_move(session[s].user_id, position.id, validation.move_id,
                            session[s].elapsed_time, validation.result)
        /\ session' = [session EXCEPT
               ![s].pc = "idle",
               ![s].last_move_record = user_moves_seq',
               ![s].show_moves_table = TRUE,
               ![s].current_moves_data = FirstTen(position.moves)]
        /\ ret' = [op |-> "submit_record", session |-> s, res |-> user_moves_seq']

\* the run for the "Random Position" button of the sidebar
RandomPositionButton(s) ==
    /\ LoggedIn(s)
    /\ session[s].pc = "idle"
    /\ \E position \in get_random_position :
          \E out \in EnsurePosition(session[s].user_id, position) :
             /\ session' = [session EXCEPT ![s].current_position =
                                IF out.raised THEN position ELSE out.position]
             /\ ret' = [op |-> "random_position_button", session |-> s,
                        raised |-> out.raised]
    /\ UNCHANGED <<catalog, accounts, attempts>>

\* the run for the "Next Position" button of the sidebar; the session is
\* left as it was when get_sequential_position raises
NextPositionButton(s) ==
    /\ LoggedIn(s)
    /\ session[s].pc = "idle"
    /\ LET out == get_sequential_position(session[s].user_id)
       IN  IF out.status = "raise"
           THEN /\ ret' = [op |-> "next_position_button", session |-> s,
                           raised |-> TRUE]
                /\ UNCHANGED session
           ELSE \E position \in out.values :
                   /\ session' = [session EXCEPT ![s].current_position = position]
                   /\ ret' = [op |-> "next_position_button", session |-> s,
                              raised |-> FALSE]
    /\ UNCHANGED <<catalog, accounts, attempts>>

\* f"Analysis for position {position['id']} with move {selected_move}"
AnalysisText(position_id, selected_move) ==
    "Analysis for position " \o ToString(position_id) \o " with move " \o selected_move

\* The run for the "Analyze this position" button, shown below the moves
\* table: the text names the loaded position and the move of the selectbox
\* and is saved to the attempt st.session_state.last_move_record, if any.
AnalyzeButton(s, selected_move) ==
    LET position == session[s].current_position
        analysis_text == AnalysisText(position.id, selected_move)
    IN  /\ LoggedIn(s)
        /\ session[s].pc = "idle"
        /\ position.found
        /\ session[s].show_moves_table
        /\ session[s].current_moves_data # <<>>
        /\ IF session[s].last_move_record # 0
           THEN save_openai_analysis(session[s].last_move_record, analysis_text)
           ELSE UNCHANGED <<catalog, accounts, attempts>>
        /\ ret' = [op |-> "analyze_button", session |-> s,
                   position_id |-> position.id, analysis_text |-> analysis_text,
                   move_record_id |-> session[s].last_move_record]
        /\ UNCHANGED session

\* the run for the "Next Position" button below the moves table
NextPositionMainButton(s) ==
    /\ LoggedIn(s)
    /\ session[s].pc = "idle"
    /\ session[s].current_position.found
    /\ session[s].show_moves_table
    /\ session[s].current_moves_data # <<>>
    /\ \E out \in load_new_position(session[s].user_id) :
          /\ session' = IF out.raised THEN session
                        ELSE [session EXCEPT ![s].current_position = out.position,
                                             ![s].show_moves_table = FALSE]
          /\ ret' = [op |-> "next_position_main_button", session |-> s,
                     raised |-> out.raised]
    /\ UNCHANGED <<catalog, accounts, attempts>>

Init ==
    /\ init_db
    /\ ret = [op |-> "init_db"]
    /\ session = [s \in SessionIds |-> InitSession]

\* ---------------------------------------------------------- specifications
\* Validation: one position is imported (and imported again with other
\* lists), users register and change their thresholds, moves are validated.
ValidateFiles == Files({1}, {"fenA"}, SeqsUpTo(MoveEntries, MaxTopMoves))
ThresholdDicts == {d \in SettingsDicts : "random_positions" \notin DOMAIN d}

NextValidate ==
    \/ Import(ValidateFiles)
    \/ Register({"a@x"})
    \/ UpdateSettings(ThresholdDicts)
    \/ ValidateMove

SpecValidate == Init /\ [][NextValidate]_vars

\* Attempts: positions with at most one ranked move each are imported and
\* cleared, attempts are recorded for any user and position id, and the
\* sequential selector is asked for the next position.
AttemptFiles ==
    Files(PosIds, Fens, SeqsUpTo({[move |-> "e4", score |-> 10, complete |-> TRUE]}, 1))
\* (time_taken follows move_id so that both vary without squaring the inputs)
AttemptInputs ==
    {in \in [user_id : UserIds, position_id : PosIds, move_id : 1..2,
             time_taken : Times, result : {"pass", "fail"}] :
        in.time_taken = in.move_id}

NextAttempts ==
    \/ Import(AttemptFiles)
    \/ ClearPositions
    \/ RecordUserMove(AttemptInputs)
    \/ GetSequentialPosition

SpecAttempts == Init /\ [][NextAttempts]_vars

\* Training page: a user registers, logs in in one browser session, opens
\* the page, loads a position and submits moves, while an administrator
\* imports and clears positions.
TrainFiles ==
    Files({1}, {"fenA"},
          SeqsUpTo({[move |-> "e4", score |-> 10, complete |-> TRUE],
                    [move |-> "d4", score |-> 35, complete |-> TRUE]}, MaxTopMoves))

NextTrain ==
    \/ Import(TrainFiles)
    \/ ClearPositions
    \/ Register({"a@x"})
    \/ \E s \in {1} : Login(s, "a@x")
    \/ \E s \in {1} : OpenTrainPage(s)
    \/ \E s \in {1}, position_id \in PosIds : LoadPositionButton(s, position_id)
    \/ \E s \in {1}, selected_move \in Notations \cup {Unranked}, elapsed_time \in Times :
          SubmitMove(s, selected_move, elapsed_time)
    \/ \E s \in {1} : SubmitRecord(s)

SpecTrain == Init /\ [][NextTrain]_vars


\* Lookup: positions with complete and incomplete top_moves elements are
\* imported under either id and either fen, and moves are looked up in them.
LookupEntries ==
    {[move |-> "e4", score |-> 10, complete |-> TRUE],
     [move |-> "d4", score |-> 20, complete |-> TRUE],
     [move |-> "e4", score |-> 10, complete |-> FALSE]}
LookupFiles == Files(PosIds, Fens, SeqsUpTo(LookupEntries, MaxTopMoves))

NextLookup ==
    \/ Import(LookupFiles)
    \/ ValidateMove
    \/ GetPositionById

SpecLookup == Init /\ [][NextLookup]_vars


\* Analysis: attempts of either user on one position are recorded and
\* analysis texts are attached to them, next to the other operations of the
\* core on a one-position catalog and one registered user.
AnalysisFiles ==
    Files({1}, {"fenA"}, {<<[move |-> "e4", score |-> 10, complete |-> TRUE]>>})
AnalysisInputs ==
    [user_id : UserIds, position_id : {1}, move_id : {1}, time_taken : {1},
     result : {"pass", "fail"}]

NextAnalysis ==
    \/ Import(AnalysisFiles)
    \/ ClearPositions
    \/ Register({"a@x"})
    \/ UpdateSettings({[key \in {"top_n_threshold"} |-> 1]})
    \/ ValidateMove
    \/ RecordUserMove(AnalysisInputs)
    \/ SaveOpenaiAnalysis
    \/ GetSequentialPosition

SpecAnalysis == Init /\ [][NextAnalysis]_vars


\* Isolation: two users register and change their thresholds, validate
\* moves and record attempts on a catalog of two positions, the second
\* without candidates.
IsolationFiles ==
    {<<[id |-> 1, fen |-> "fenA",
        top_moves |-> <<[move |-> "e4", score |-> 10, complete |-> TRUE],
                        [move |-> "d4", score |-> 20, complete |-> TRUE]>>]>>,
     <<[id |-> 2, fen |-> "fenB", top_moves |-> <<>>]>>}
IsolationInputs ==
    [user_id : UserIds, position_id : PosIds, move_id : {1}, time_taken : {1},
     result : {"fail"}]

NextIsolation ==
    \/ Import(IsolationFiles)
    \/ Register(Emails)
    \/ UpdateSettings({[key \in {"top_n_threshold"} |-> 1]})
    \/ ValidateMove
    \/ RecordUserMove(IsolationInputs)
    \/ GetSequentialPosition

SpecIsolation == Init /\ [][NextIsolation]_vars


\* Tabs: one user is logged in in two browser sessions, loads a position in
\* each and submits the move e4, which is ranked first in position 1 and
\* second in position 2.
TabFiles ==
    {<<[id |-> 1, fen |-> "fenA",
        top_moves |-> <<[move |-> "e4", score |-> 10, complete |-> TRUE]>>]>>,
     <<[id |-> 2, fen |-> "fenB",
        top_moves |-> <<[move |-> "d4", score |-> 10, complete |-> TRUE],
                        [move |-> "e4", score |-> 35, complete |-> TRUE]>>]>>}

NextTabs ==
    \/ Import(TabFiles)
    \/ Register({"a@x"})
    \/ \E s \in SessionIds : Login(s, "a@x")
    \/ \E s \in SessionIds, position_id \in PosIds : LoadPositionButton(s, position_id)
    \/ \E s \in SessionIds : SubmitMove(s, "e4", 1)
    \/ \E s \in SessionIds : SubmitRecord(s)

SpecTabs == Init /\ [][NextTabs]_vars


\* Page: a user works on the training page in one browser session: loads
\* positions with the sidebar buttons, submits moves, asks for the analysis
\* and goes on. Position 1 lost its rank-1 element at import, position 2 has
\* one candidate.
PageFiles ==
    {<<[id |-> 1, fen |-> "fenA",
        top_moves |-> <<[move |-> "e4", score |-> 10, complete |-> FALSE],
                        [move |-> "d4", score |-> 35, complete |-> TRUE]>>]>>,
     <<[id |-> 2, fen |-> "fenB",
        top_moves |-> <<[move |-> "e4", score |-> 10, complete |-> TRUE]>>]>>}

NextPage ==
    \/ Import(PageFiles)
    \/ Register({"a@x"})
    \/ UpdateSettings({[key \in {"random_positions"} |-> 0]})
    \/ \E s \in {1} : Login(s, "a@x")
    \/ \E s \in {1} : OpenTrainPage(s)
    \/ \E s \in {1} : RandomPositionButton(s)
    \/ \E s \in {1} : NextPositionButton(s)
    \/ \E s \in {1}, position_id \in PosIds : LoadPositionButton(s, position_id)
    \/ \E s \in {1}, selected_move \in Notations \cup {Unranked} : SubmitMove(s, selected_move, 1)
    \/ \E s \in {1} : SubmitRecord(s)
    \/ \E s \in {1}, selected_move \in Notations : AnalyzeButton(s, selected_move)
    \/ \E s \in {1} : NextPositionMainButton(s)

SpecPage == Init /\ [][NextPage]_vars


\* Reimport: one-line files under either id and fen, or without a usable id,
\* with at most one move, are imported through import_positions, any
\* number of times and in any order.
ReimportFiles == Files(PosIds \cup {0}, Fens, SeqsUpTo(LookupEntries, 1))

NextReimport ==
    \/ ImportPositions(ReimportFiles)

SpecReimport == Init /\ [][NextReimport]_vars


\* ------------------------------------------------------------------ claims
\* the last call was validate_move and it evaluated a candidate move
Validated == ret.op = "validate_move" /\ ret.res.found

\* the rows the two queries of validate_move select for the last call
SelectedRows == {m \in moves : m.position_id = ret.position_id /\ m.move = ret.selected_move}
TopRows == {m \in moves : m.position_id = ret.position_id /\ m.rank = 1}

\* the user_settings rows of a user (at most one: user_id is the primary key)
RowsOf(user_id) == {row \in user_settings : row.user_id = user_id}

\* C1: validate_move on a candidate move of a position with a rank-1 move
\* returns success exactly when the move's rank is at most top_n_threshold
\* and its score is within score_difference_threshold of a rank-1 score of
\* the position; result is "pass" when success and "fail" otherwise.
C1_AcceptIff ==
    (ret.op = "validate_move" /\ SelectedRows # {} /\ TopRows # {}) =>
        /\ ret.res.found
        /\ \E m \in SelectedRows, top \in TopRows :
            /\ ret.res.score_difference = Abs(m.score - top.score)
            /\ ret.res.success =
                  (m.rank <= Thresholds(ret.user_id).top_n_threshold
                   /\ Abs(m.score - top.score)
                         <= Thresholds(ret.user_id).score_difference_threshold)
            /\ ret.res.result = (IF ret.res.success THEN "pass" ELSE "fail")

\* C1 witness: a move whose rank qualifies is rejected on the score gap alone
C1_Witness ==
    /\ Validated
    /\ ~ret.res.success
    /\ ret.res.rank <= Thresholds(ret.user_id).top_n_threshold
    /\ ret.res.score_difference > Thresholds(ret.user_id).score_difference_threshold

\* C2: validate_move on the notation of a rank-1 move of a position yields
\* success = true and score_difference = 0, whatever the user's settings row.
C2_RankOnePasses ==
    (/\ ret.op = "validate_move"
     /\ \E m \in moves : /\ m.position_id = ret.position_id
                         /\ m.move = ret.selected_move
                         /\ m.rank = 1)
        => (ret.res.success /\ ret.res.score_difference = 0)

\* C10: without a user_settings row validate_move decides with 3 and 10;
\* with a row it decides with the two values of the row. It returns a dict
\* in both cases, and evaluates every candidate of a position with a rank-1 move.
C10_ThresholdsUsed ==
    ret.op = "validate_move" =>
        /\ ret.res.found = (SelectedRows # {} /\ TopRows # {})
        /\ ret.res.found =>
              /\ RowsOf(ret.user_id) = {} =>
                    ret.res.success = (ret.res.rank <= 3 /\ ret.res.score_difference <= 10)
              /\ \A row \in RowsOf(ret.user_id) :
                    ret.res.success =
                        (/\ ret.res.rank <= row.top_n_threshold
                         /\ ret.res.score_difference <= row.score_difference_threshold)

\* C10 witness: a user without a row is refused a move on the default score
\* threshold while a user with a row has changed thresholds
C10_Witness ==
    /\ Validated
    /\ RowsOf(ret.user_id) = {}
    /\ ~ret.res.success
    /\ \E row \in user_settings : row.top_n_threshold # DefaultTopN


\* C3: a record_user_move step adds exactly one row, which carries the given
\* user_id, position_id, move_id, time_taken and result, and keeps every
\* earlier row as it was; the table then holds one row per call made.
C3_RecordAppendsOne ==
    [][ret'.op = "record_user_move" =>
          /\ user_moves \subseteq user_moves'
          /\ Cardinality(user_moves') = Cardinality(user_moves) + 1
          /\ \E row \in user_moves' \ user_moves :
                /\ row.id = ret'.res
                /\ row.user_id = ret'.user_id
                /\ row.position_id = ret'.position_id
                /\ row.move_id = ret'.move_id
                /\ row.time_taken = ret'.time_taken
                /\ row.result = ret'.result
          /\ Cardinality(user_moves') = user_moves_seq']_vars

\* C3 witness: a second attempt of the same user on the same position was
\* recorded and the first row is still there
C3_Witness ==
    /\ ret.op = "record_user_move"
    /\ \E old \in user_moves :
          /\ old.id # ret.res
          /\ old.user_id = ret.user_id
          /\ old.position_id = ret.position_id
          /\ old.result # ret.result

\* C4: clear_positions called while an attempt row exists returns failure and
\* leaves the positions and moves tables as they were.
C4_ClearRefused ==
    [][(ret'.op = "clear_positions" /\ user_moves # {}) =>
          /\ ~ret'.res.success
          /\ positions' = positions
          /\ moves' = moves]_vars

\* C4 witness: clear_positions was refused on a catalog that holds a position
\* and a move
C4_Witness ==
    /\ ret.op = "clear_positions"
    /\ ~ret.res.success
    /\ user_moves # {}
    /\ positions # {}
    /\ moves # {}

\* the highest position_id the user has attempted, 0 without attempts
Highest(user_id) ==
    LET ids == {r.position_id : r \in {a \in user_moves : a.user_id = user_id}}
    IN  IF ids = {} THEN 0 ELSE SetMax(ids)

\* the catalog ids above the user's highest attempted id
Later(user_id) == {p.id : p \in {q \in positions : q.id > Highest(user_id)}}

CatalogIds == {p.id : p \in positions}

Sequential == ret.op = "get_sequential_position"

\* C6: when the catalog has an id above the user's highest attempted id,
\* get_sequential_position returns the position with the smallest such id,
\* whatever the results of the attempts.
C6_NextAfterHighest ==
    (Sequential /\ Later(ret.user_id) # {}) =>
        /\ ~ret.raised
        /\ ret.res.found
        /\ ret.res.id = SetMin(Later(ret.user_id))

\* C6 witness: the user passed position 1, another user attempted a higher
\* position, and the selector returned a position above 1
C6_Witness ==
    /\ Sequential
    /\ ~ret.raised
    /\ ret.res.id > 1
    /\ 1 \in CatalogIds
    /\ \E a \in user_moves : a.user_id = ret.user_id /\ a.result = "pass"
    /\ \E b \in user_moves : b.user_id # ret.user_id /\ b.position_id > Highest(ret.user_id)

\* C7: when the catalog is not empty and has no id above the user's highest
\* attempted id, get_sequential_position returns the position with the
\* smallest id.
C7_WrapsToSmallest ==
    (Sequential /\ positions # {} /\ Later(ret.user_id) = {}) =>
        /\ ~ret.raised
        /\ ret.res.found
        /\ ret.res.id = SetMin(CatalogIds)

\* C8: get_sequential_position returns none exactly when the catalog is
\* empty, and never fails.
C8_NoneIffEmpty ==
    Sequential =>
        /\ ~ret.raised
        /\ (ret.res.found <=> positions # {})

\* C9: get_sequential_position right after the user recorded an attempt on
\* position p returns a position with id above p, unless p is the highest
\* id of the catalog, and then it returns the position with the lowest id.
C9_AfterRecord ==
    [][(/\ ret.op = "record_user_move"
        /\ ret'.op = "get_sequential_position"
        /\ ret'.user_id = ret.user_id
        /\ ret.position_id \in CatalogIds) =>
          /\ ~ret'.raised
          /\ ret'.res.found
          /\ IF ret.position_id = SetMax(CatalogIds)
             THEN ret'.res.id = SetMin(CatalogIds)
             ELSE ret'.res.id > ret.position_id]_vars


\* C5: every attempt row references a position of the positions table and a
\* move of that position, in every reachable state.
C5_NoOrphanAttempts ==
    \A a \in user_moves :
        /\ \E p \in positions : p.id = a.position_id
        /\ \E m \in moves : m.id = a.move_id /\ m.position_id = a.position_id

\* the key of the positions row the last call named, if there is one
PositionExists == \E p \in positions : p.id = ret.position_id

\* C11: validate_move called with a position id that is not in the positions
\* table, or with a notation that is no candidate of the position, returns
\* the failure value: success false, no move id and no pass/fail result.
C11_NotFoundFails ==
    (ret.op = "validate_move" /\ (~PositionExists \/ SelectedRows = {})) =>
        /\ ~ret.res.success
        /\ DOMAIN ret.res \cap {"move_id", "result"} = {}

\* C12: the outcome validate_move reports for a position without candidates,
\* or without a rank-1 candidate, differs from the outcome it reported just
\* before for a notation that is no candidate of a position with a rank-1 move.
C12_InvalidStateDistinct ==
    [][(/\ ret.op = "validate_move"
        /\ PositionExists
        /\ SelectedRows = {}
        /\ TopRows # {}
        /\ ret'.op = "validate_move"
        /\ \E p \in positions' : p.id = ret'.position_id
        /\ {m \in moves' : m.position_id = ret'.position_id /\ m.rank = 1} = {})
          => ret'.res # ret.res]_vars

\* C13: the message of every evaluated candidate states the rank of the
\* move, and it carries the score-gap note exactly when the rank is at most
\* top_n_threshold and the move is not accepted.
C13_MessageNote ==
    (ret.op = "validate_move" /\ ret.res.found) =>
        \E m \in SelectedRows :
            /\ ret.res.message.rank = m.rank
            /\ ret.res.message.gap_note =
                  (m.rank <= Thresholds(ret.user_id).top_n_threshold /\ ~ret.res.success)

\* C13 witness: a move rejected on its rank alone got a message without the note
C13_Witness ==
    /\ Validated
    /\ ~ret.res.success
    /\ ret.res.rank > Thresholds(ret.user_id).top_n_threshold
    /\ ret.res.message.rank = 2
    /\ ~ret.res.message.gap_note

\* the attempt row with this id, as a set (empty without such a row)
Attempt(rows, id) == {r \in rows : r.id = id}

\* C14: a save_openai_analysis(a, t2) step that follows save_openai_analysis(a, t1)
\* on an attempt a leaves a with the text t2 and leaves the number of
\* attempt rows and their ids as they were before the two calls.
C14_LastTextWins ==
    [][(/\ ret.op = "save_openai_analysis"
        /\ ret'.op = "save_openai_analysis"
        /\ ret'.move_record_id = ret.move_record_id
        /\ Attempt(user_moves, ret.move_record_id) # {})
          => /\ \A r \in Attempt(user_moves, ret.move_record_id) :
                    r.openai_analysis = ret.analysis_text
             /\ Cardinality(Attempt(user_moves', ret'.move_record_id)) = 1
             /\ \A r \in Attempt(user_moves', ret'.move_record_id) :
                    r.openai_analysis = ret'.analysis_text
             /\ Cardinality(user_moves') = Cardinality(user_moves)
             /\ {r.id : r \in user_moves'} = {r.id : r \in user_moves}]_vars

\* C14 witness: the second call replaced the text t1 of an attempt by t2
\* while another attempt row exists
C14_Witness ==
    /\ ret.op = "save_openai_analysis"
    /\ ret.replaced = "t1"
    /\ ret.analysis_text = "t2"
    /\ \A r \in Attempt(user_moves, ret.move_record_id) : r.openai_analysis = "t2"
    /\ Cardinality(user_moves) = 2

\* the operations of the core
CoreOps ==
    {"validate_move", "record_user_move", "save_openai_analysis",
     "get_sequential_position", "update_user_settings", "clear_positions"}

\* C15: a step of an operation of the core keeps every attempt row with its
\* user_id, position_id, move_id, time_taken, result and timestamp; only
\* save_openai_analysis(a, t) changes an analysis text, and only that of row a.
C15_AttemptsImmutable ==
    [][ret'.op \in CoreOps =>
          \A old \in user_moves :
              /\ Cardinality(Attempt(user_moves', old.id)) = 1
              /\ \A new \in Attempt(user_moves', old.id) :
                    /\ new.user_id = old.user_id
                    /\ new.position_id = old.position_id
                    /\ new.move_id = old.move_id
                    /\ new.time_taken = old.time_taken
                    /\ new.result = old.result
                    /\ new.timestamp = old.timestamp
                    /\ new.openai_analysis # old.openai_analysis =>
                          /\ ret'.op = "save_openai_analysis"
                          /\ ret'.move_record_id = old.id
                          /\ new.openai_analysis = ret'.analysis_text]_vars

\* C15 witness: a text was attached to the older of two attempts; the row
\* kept its earlier timestamp and the other row is without a text
C15_Witness ==
    /\ ret.op = "save_openai_analysis"
    /\ \E a, b \in user_moves :
          /\ a.id = ret.move_record_id
          /\ a.openai_analysis = ret.analysis_text
          /\ a.timestamp = 1
          /\ b.timestamp = 2
          /\ b.openai_analysis = None
          /\ a.user_id # b.user_id

\* C16: the id record_user_move returns is the id of the one row the call
\* appended, and it differs from the id of every row and from every id
\* handed out before.
C16_FreshId ==
    [][ret'.op = "record_user_move" =>
          /\ Attempt(user_moves, ret'.res) = {}
          /\ ret'.res \notin 1..user_moves_seq
          /\ user_moves' \ user_moves = Attempt(user_moves', ret'.res)
          /\ \A row \in user_moves' \ user_moves :
                /\ row.user_id = ret'.user_id
                /\ row.position_id = ret'.position_id
                /\ row.result = ret'.result
          /\ Cardinality(user_moves' \ user_moves) = 1]_vars

\* C16 witness: two users recorded one after the other and the later call
\* returned the id 2 of its own row
C16_Witness ==
    /\ ret.op = "record_user_move"
    /\ ret.res = 2
    /\ \E a, b \in user_moves :
          /\ a.id = 1
          /\ b.id = 2
          /\ a.user_id # b.user_id
          /\ b.user_id = ret.user_id
          /\ b.result = ret.result
          /\ a.result # b.result

\* the attempt rows of a user
AttemptsOf(rows, user_id) == {r \in rows : r.user_id = user_id}

\* C17: a validate_move, record_user_move or update_user_settings step made
\* for user A leaves the settings row and the attempt rows of every other
\* user B as they were, and with them what validate_move and
\* get_sequential_position return for B.
C17_UsersIsolated ==
    [][ret'.op \in {"validate_move", "record_user_move", "update_user_settings"} =>
          \A B \in UserIds \ {ret'.user_id} :
              /\ {row \in user_settings' : row.user_id = B} = RowsOf(B)
              /\ AttemptsOf(user_moves', B) = AttemptsOf(user_moves, B)
              /\ \A position_id \in PosIds, selected_move \in Notations \cup {Unranked} :
                    validate_move(position_id, selected_move, B)'
                        = validate_move(position_id, selected_move, B)
              /\ get_sequential_position(B)' = get_sequential_position(B)]_vars

\* C17 witness: user A lowered the own top_n_threshold while user B keeps
\* the default row and an own attempt, and A has an attempt on a later position
C17_Witness ==
    /\ ret.op = "update_user_settings"
    /\ \E A, B \in UserIds :
          /\ A # B
          /\ ret.user_id = A
          /\ \E row \in RowsOf(A) : row.top_n_threshold = 1
          /\ \E row \in RowsOf(B) : row.top_n_threshold = DefaultTopN
          /\ \E a \in AttemptsOf(user_moves, A), b \in AttemptsOf(user_moves, B) :
                a.position_id > b.position_id
          /\ \E v \in validate_move(1, "d4", B) : v.success
          /\ \E v \in validate_move(1, "d4", A) : ~v.success

\* the candidates of a position: its rows of the moves table
Candidates(position_id) == {m \in moves : m.position_id = position_id}

\* C19: a submission of a move that is no candidate of the loaded position
\* appends exactly one attempt, with result "fail" and the move id of a
\* candidate of the highest rank number, when the position has a candidate,
\* and appends nothing when it has none.
C19_UnrankedRecordedOnce ==
    [][\A s \in SessionIds :
          LET position_id == session[s].current_position.id
              ranked == Candidates(position_id)
              added == user_moves' \ user_moves
          IN  (/\ ret'.op = "submit_move"
               /\ ret'.session = s
               /\ \A m \in ranked : m.move # ret'.selected_move)
                 => IF ranked = {}
                    THEN added = {}
                    ELSE /\ Cardinality(added) = 1
                         /\ \A row \in added :
                               /\ row.result = "fail"
                               /\ row.position_id = position_id
                               /\ \E m \in ranked :
                                     /\ m.id = row.move_id
                                     /\ \A n \in ranked : n.rank <= m.rank]_vars

\* C20: when validate_move returns its failure value for a submitted move of
\* the loaded candidate list, the submission completes without an exception
\* and appends no attempt row.
C20_FailureValueHandled ==
    [][(ret'.op = "submit_move" /\ ret'.candidate /\ ~ret'.res.found) =>
          /\ ~ret'.raised
          /\ user_moves' = user_moves]_vars

\* C18: whatever other sessions do in between, the validate step of a
\* submission keeps the validation of its own position in its own session,
\* and its record step appends exactly one row, with the user, position,
\* move id and result of that validation, hands the id of that row to its
\* own session and leaves every other session as it was.
C18_SubmissionsIndependent ==
    [][\A s \in SessionIds :
          /\ (ret'.op = "submit_move" /\ ret'.session = s /\ ret'.res.found) =>
                /\ ret'.res \in validate_move(session[s].current_position.id,
                                             ret'.selected_move, session[s].user_id)
                /\ session'[s].validation = ret'.res
                /\ user_moves' = user_moves
                /\ \A t \in SessionIds \ {s} : session'[t] = session[t]
          /\ (ret'.op = "submit_record" /\ ret'.session = s) =>
                /\ Cardinality(user_moves' \ user_moves) = 1
                /\ \A row \in user_moves' \ user_moves :
                      /\ row.user_id = session[s].user_id
                      /\ row.position_id = session[s].current_position.id
                      /\ row.move_id = session[s].validation.move_id
                      /\ row.result = session[s].validation.result
                      /\ ret'.res = row.id
                      /\ session'[s].last_move_record = row.id
                /\ user_moves \subseteq user_moves'
                /\ \A t \in SessionIds \ {s} : session'[t] = session[t]]_vars

\* C18 witness: a session recorded its pass on position 1 while another
\* session of the same user has validated its move on position 2 and has
\* not recorded it yet
C18_Witness ==
    /\ ret.op = "submit_record"
    /\ \E s, t \in SessionIds :
          /\ s # t
          /\ ret.session = s
          /\ session[s].user_id = session[t].user_id
          /\ session[t].pc = "validated"
          /\ session[s].current_position.id = 1
          /\ session[t].current_position.id = 2
          /\ session[t].validation.result = "fail"
          /\ \E row \in user_moves :
                /\ row.id = session[s].last_move_record
                /\ row.position_id = 1
                /\ row.result = "pass"

\* C21: a submission of a candidate move of the loaded position goes on to
\* its record step, and the record step appends exactly one attempt row, with
\* the id of a candidate row of the loaded position as its move_id, the id of
\* the loaded position as its position_id and the result of the validation
\* ("pass" iff the validation accepted the move).
C21_CandidateRecordedOnce ==
    [][\A s \in SessionIds :
          /\ (ret'.op = "submit_move" /\ ret'.session = s /\ ret'.candidate) =>
                /\ ~ret'.raised
                /\ session'[s].pc = "validated"
          /\ (ret'.op = "submit_record" /\ ret'.session = s
                /\ session[s].pc = "validated") =>
                LET position == session[s].current_position
                    validation == session[s].validation
                    added == user_moves' \ user_moves
                IN  /\ Cardinality(added) = 1
                    /\ user_moves \subseteq user_moves'
                    /\ \A row \in added :
                          /\ row.position_id = position.id
                          /\ \E i \in DOMAIN position.moves :
                                position.moves[i].id = row.move_id
                          /\ row.result = validation.result
                          /\ (row.result = "pass") <=> validation.success]_vars

\* C22: the candidate moves of every position have positive ranks, no two of
\* them the same, and one of them has rank 1 when the position has any.
C22_RanksUniqueFromOne ==
    \A p \in positions :
        LET ranked == Candidates(p.id)
        IN  /\ \A m \in ranked : m.rank >= 1
            /\ \A m, n \in ranked : m # n => m.rank # n.rank
            /\ ranked # {} => \E m \in ranked : m.rank = 1

\* C23: every user_settings row has top_n_threshold >= 1 and
\* score_difference_threshold >= 0.
C23_ThresholdsInRange ==
    \A row \in user_settings :
        /\ row.top_n_threshold >= 1
        /\ row.score_difference_threshold >= 0

\* C26: a save_openai_analysis step for an id that no attempt row has leaves
\* the attempt rows as they were and does not return success.
C26_MissingAttemptNotSaved ==
    [][(ret'.op = "save_openai_analysis"
          /\ Attempt(user_moves, ret'.move_record_id) = {}) =>
          /\ user_moves' = user_moves
          /\ ~ret'.res]_vars

\* C27: a validate_move step for a user that follows an update_user_settings
\* of that user which set both thresholds and returned True decides with
\* the thresholds of that update, whether the user has a settings row or not.
C27_UpdateTakesEffect ==
    [][(/\ ret.op = "update_user_settings"
        /\ ret.res
        /\ {"top_n_threshold", "score_difference_threshold"} \subseteq DOMAIN ret.settings_dict
        /\ ret'.op = "validate_move"
        /\ ret'.user_id = ret.user_id
        /\ ret'.res.found) =>
          ret'.res.success =
             IsSuccess(ret'.res.rank, ret'.res.score_difference,
                       [top_n_threshold |-> ret.settings_dict.top_n_threshold,
                        score_difference_threshold |->
                            ret.settings_dict.score_difference_threshold])]_vars

\* C28: the position_id of every row of the moves table is the id of a row
\* of the positions table.
C28_MovesReferencePositions ==
    \A m \in moves : \E p \in positions : p.id = m.position_id

\* C25: an Analyze step that attaches its text to an attempt attaches it to
\* an attempt made on the position loaded in the session: the position id
\* the text names is the position_id of the row that receives the text.
C25_AnalysisOnLoadedPosition ==
    [][(ret'.op = "analyze_button" /\ ret'.move_record_id # 0) =>
          \A row \in Attempt(user_moves', ret'.move_record_id) :
              /\ row.openai_analysis = ret'.analysis_text
              /\ \E selected_move \in Notations :
                    row.openai_analysis = AnalysisText(row.position_id, selected_move)]_vars

\* C24: get_position_by_id returns none exactly when the positions table has
\* no row of the given id; otherwise it returns that row's id and fen with a
\* list that holds each row of the moves table of that position_id once, and
\* no other row, in ascending order of rank.
C24_ByIdWithOrderedMoves ==
    ret.op = "get_position_by_id" =>
        /\ ~ret.res.found <=> ~\E p \in positions : p.id = ret.position_id
        /\ ret.res.found =>
              LET list == ret.res.moves
              IN  /\ ret.res.id = ret.position_id
                  /\ [id |-> ret.res.id, fen |-> ret.res.fen] \in positions
                  /\ {list[i] : i \in DOMAIN list} = Candidates(ret.position_id)
                  /\ Len(list) = Cardinality(Candidates(ret.position_id))
                  /\ \A i, j \in DOMAIN list : i < j => list[i].rank <= list[j].rank

\* C24 witness: a position is returned with its two moves of ranks 1 and 2
\* while the moves table also holds a row of another position id
C24_Witness ==
    /\ ret.op = "get_position_by_id"
    /\ ret.res.found
    /\ Len(ret.res.moves) = 2
    /\ ret.res.moves[1].rank = 1
    /\ ret.res.moves[2].rank = 2
    /\ \E m \in moves : m.position_id # ret.position_id

\* C29: an import_positions step that follows an import_positions of the
\* same file leaves the positions table and the moves table as they were
\* and reports 0 imported positions.
C29_ReimportChangesNothing ==
    [][(/\ ret.op = "import_positions"
        /\ ret'.op = "import_positions"
        /\ ret'.file_path = ret.file_path) =>
          /\ positions' = positions
          /\ moves' = moves
          /\ ret'.res.imported = 0]_vars

\* C29 witness: the second import of a file whose first import added a
\* position and its move has reported success with 0 imported positions
C29_Witness ==
    /\ ret.op = "import_positions"
    /\ ret.res.success
    /\ ret.res.imported = 0
    /\ Len(ret.file_path) = 1
    /\ \E p \in positions : p.id = ret.file_path[1].id /\ p.fen = ret.file_path[1].fen
    /\ Len(ret.file_path[1].top_moves) = 1
    /\ \E m \in moves :
          /\ m.position_id = ret.file_path[1].id
          /\ m.move = ret.file_path[1].top_moves[1].move
          /\ m.id + 1 < moves_seq

\* C30: a validate_move step, whatever it returns, leaves the positions,
\* moves, user_settings and attempt tables as they were, and a step of the
\* core that adds an attempt row is a record_user_move step.
C30_ValidateReadOnly ==
    [][/\ ret'.op = "validate_move" =>
             /\ positions' = positions
             /\ moves' = moves
             /\ user_settings' = user_settings
             /\ user_moves' = user_moves
       /\ (\E row \in user_moves' : Attempt(user_moves, row.id) = {}) =>
             ret'.op = "record_user_move"]_vars

\* C30 witness: validate_move has accepted a candidate move for a user who
\* has a settings row while the attempt table holds a row of that user
C30_Witness ==
    /\ ret.op = "validate_move"
    /\ ret.res.found
    /\ ret.res.result = "pass"
    /\ RowsOf(ret.user_id) # {}
    /\ AttemptsOf(user_moves, ret.user_id) # {}

====
